---- MODULE Spec2Model ----
(***************************************************************************)
(* Model of the order-taking backend (backend/main.py, email_utils.py,     *)
(* payment_utils.py, config.py).                                           *)
(*                                                                         *)
(* The relational store is the three tables the SQL of main.py reads and   *)
(* writes: products, orders, order_items.  Strings that the code inspects  *)
(* character by character (name, phone, address) are sequences of          *)
(* one-character strings.  created_at and the free-text columns that no    *)
(* handler branches on are not part of the state.                          *)
(***************************************************************************)
EXTENDS Integers, Sequences, FiniteSets, TLC

VARIABLES
    products,     \* products table: product id -> price
    nextId,       \* next value of the orders.id sequence
    orders,       \* committed orders rows: order id -> [status, phone]
    order_items,  \* committed order_items rows, in insertion (oi.id) order
    tasks,        \* BackgroundTasks: order ids whose send_order_email is scheduled
    mail,         \* outcome of the most recent send_order_email call
    gateway,      \* amounts (paise) for which client.order.create was called
    cfg,          \* the EMAIL_* configuration values that are set
    rzp,          \* TRUE iff RAZORPAY_KEY_ID and RAZORPAY_KEY_SECRET are set
    req,          \* the most recent HTTP request
    resp,         \* the response to it
    tx            \* per-connection open transactions (concurrent placements)

vars == <<products, nextId, orders, order_items, tasks, mail, gateway, cfg, rzp,
          req, resp, tx>>

----------------------------------------------------------------------------
(* Bounds of the model *)

MaxOrders == 2      \* values the orders.id sequence may hand out
MaxCart == 2        \* longest cart

(* Input samples *)

Catalog == {1}                  \* ids that have a row in products
ProductIds == Catalog \cup {2}  \* ids a client may send; 2 has no row
Prices == {100, 150}
Quantities == {-1, 0, 2}        \* OrderItemIn.quantity is any int
Lines == [product_id : ProductIds, quantity : Quantities]
Carts == UNION {[1..n -> Lines] : n \in 0..MaxCart}

None == "None"

----------------------------------------------------------------------------
(* Character-level validation *)

Digits == {"0", "1", "2", "3", "4", "5", "6", "7", "8", "9"}
Letters == {"J", "o", "M", "G", "R", "d"}
Spaces == {" "}

isdigit(s) == Len(s) > 0 /\ \A i \in 1..Len(s) : s[i] \in Digits
isalpha(ch) == ch \in Letters
isspace(ch) == ch \in Spaces

RECURSIVE lstrip(_)
lstrip(s) == IF s # <<>> /\ isspace(Head(s)) THEN lstrip(Tail(s)) ELSE s

RECURSIVE rstrip(_)
rstrip(s) ==
    IF s # <<>> /\ isspace(s[Len(s)]) THEN rstrip(SubSeq(s, 1, Len(s) - 1)) ELSE s

strip(s) == rstrip(lstrip(s))

\* OrderIn.validate_customer_name: the stripped name, or a ValueError
validate_customer_name(v) ==
    LET name == strip(v) IN
    IF Len(name) < 2 THEN [ok |-> FALSE, value |-> name]
    ELSE IF ~(\A i \in 1..Len(name) : isalpha(name[i]) \/ isspace(name[i]))
         THEN [ok |-> FALSE, value |-> name]
    ELSE [ok |-> TRUE, value |-> name]

\* OrderIn.validate_address
validate_address(v) ==
    LET addr == strip(v) IN
    IF addr = <<>> THEN [ok |-> FALSE, value |-> addr]
    ELSE [ok |-> TRUE, value |-> addr]

\* OrderIn(...): construction succeeds iff both validators pass
OrderIn(r) ==
    validate_customer_name(r.customer_name).ok /\ validate_address(r.address).ok

\* the phone check both customer-facing handlers make
PhoneOk(cleaned_phone) == Len(cleaned_phone) = 10 /\ isdigit(cleaned_phone)

----------------------------------------------------------------------------
(* Configuration (config.py) *)

ADMIN_KEY == "your-admin-key-here"
Keys == {None, ADMIN_KEY, "wrong-key"}      \* X-Admin-Key header values; None = absent
EmailKeys == {"EMAIL_HOST", "EMAIL_USER", "EMAIL_PASS", "EMAIL_FROM", "EMAIL_TO"}

\* the schema's default for orders.status
DefaultStatus == "pending"

----------------------------------------------------------------------------
(* Requests and responses *)

NoSummary == [total_orders |-> 0, total_revenue |-> 0]

Request(op, name, phone, address, items, key, order_id) ==
    [op |-> op, customer_name |-> name, phone |-> phone, address |-> address,
     items |-> items, key |-> key, order_id |-> order_id]

Response(status, kind, order_id, bad_id, amount, listing, summary) ==
    [status |-> status, kind |-> kind, order_id |-> order_id, bad_id |-> bad_id,
     amount |-> amount, orders |-> listing, summary |-> summary]

Ok(order_id, amount, listing, summary) ==
    Response(200, "ok", order_id, 0, amount, listing, summary)
\* {"error": <message>} with HTTP 200; bad_id is the id the message names
Error(kind, bad_id) == Response(200, kind, 0, bad_id, 0, <<>>, NoSummary)
\* HTTPException(status_code=401, detail="Unauthorized")
Unauthorized == Response(401, "unauthorized", 0, 0, 0, <<>>, NoSummary)
\* FastAPI's answer to a body that fails the OrderIn validators
Unprocessable == Response(422, "validation", 0, 0, 0, <<>>, NoSummary)
\* an exception that leaves the handler
Raised == Response(500, "exception", 0, 0, 0, <<>>, NoSummary)

NoReq == Request("none", <<>>, <<>>, <<>>, <<>>, None, 0)
NoResp == Response(0, "none", 0, 0, 0, <<>>, NoSummary)

Respond(r, rs) == req' = r /\ resp' = rs

----------------------------------------------------------------------------
(* The store: st = [orders, order_items], the committed tables or the rows a *)
(* connection has written inside its transaction                          *)

Store == [orders |-> orders, order_items |-> order_items]

\* INSERT INTO orders (...) RETURNING id
InsertOrder(st, order_id, cleaned_phone) ==
    [st EXCEPT !.orders =
        @ @@ (order_id :> [status |-> DefaultStatus, phone |-> cleaned_phone])]

\* slip: the quantity is left out of the product
LineTotal_IgnoresQuantity(price, quantity) == price

\* line_total = price * item.quantity
LineTotal(price, quantity) == price * quantity

\* INSERT INTO order_items (order_id, product_id, quantity, line_total)
InsertItem(st, order_id, item, line_total) ==
    [st EXCEPT !.order_items =
        Append(@, [order_id |-> order_id, product_id |-> item.product_id,
                   quantity |-> item.quantity, line_total |-> line_total])]

\* one pass of the loop body of create_order: SELECT price, then INSERT or raise
PlaceItem(st, prods, order_id, item) ==
    IF item.product_id \notin DOMAIN prods
    THEN [ok |-> FALSE, st |-> st, bad_id |-> item.product_id]
    ELSE [ok |-> TRUE,
          st |-> InsertItem(st, order_id, item,
                            LineTotal(prods[item.product_id], item.quantity)),
          bad_id |-> 0]

\* for item in order.items: ...   (stops at the first raise)
RECURSIVE PlaceItems(_, _, _, _, _)
PlaceItems(st, prods, order_id, items, i) ==
    IF i > Len(items) THEN [ok |-> TRUE, st |-> st, bad_id |-> 0]
    ELSE LET r == PlaceItem(st, prods, order_id, items[i]) IN
         IF r.ok THEN PlaceItems(r.st, prods, order_id, items, i + 1) ELSE r

\* what a connection has written and not yet committed
NoWrites == [orders |-> <<>>, order_items |-> <<>>]

\* conn.commit(): the connection's writes join the committed store
Commit(committed, writes) ==
    [orders |-> committed.orders @@ writes.orders,
     order_items |-> committed.order_items \o writes.order_items]
\* slip: the except branch commits what was written so far
Rollback_KeepsWrites(committed, writes) == Commit(committed, writes)

\* conn.rollback(): the writes are dropped
Rollback(committed, writes) == committed

\* slip: any presented key is accepted, only an absent one is refused
Authorized_AnyKey(x_admin_key) == x_admin_key # None

\* x_admin_key != ADMIN_KEY is the unauthorized case
Authorized(x_admin_key) == x_admin_key = ADMIN_KEY

\* slip: the update flips the status instead of setting it
CompleteUpdate_Toggles(st, order_id) ==
    [st EXCEPT !.orders =
        [o \in DOMAIN @ |->
            IF o = order_id
            THEN [@[o] EXCEPT !.status = IF @ = "pending" THEN "completed" ELSE "pending"]
            ELSE @[o]]]

\* UPDATE orders SET status = 'completed' WHERE id = order_id
CompleteUpdate(st, order_id) ==
    [st EXCEPT !.orders =
        [o \in DOMAIN @ |->
            IF o = order_id THEN [@[o] EXCEPT !.status = "completed"] ELSE @[o]]]

\* slip: the WHERE o.status = 'pending' clause is missing
PendingRows_NoStatusFilter(st, prods) ==
    LET Joined(oi) == /\ oi.order_id \in DOMAIN st.orders
                      /\ oi.product_id \in DOMAIN prods
    IN SelectSeq(st.order_items, Joined)

\* FROM orders o JOIN order_items oi JOIN products p WHERE o.status = 'pending'
\* (rows of one order come in oi.id order)
PendingRows(st, prods) ==
    LET Joined(oi) == /\ oi.order_id \in DOMAIN st.orders
                      /\ st.orders[oi.order_id].status = "pending"
                      /\ oi.product_id \in DOMAIN prods
    IN SelectSeq(st.order_items, Joined)

\* the dict built from the rows: order id -> its "items" list
GroupRows(rows) ==
    [o \in {rows[i].order_id : i \in DOMAIN rows} |->
        LET Mine(r) == r.order_id = o
            mine == SelectSeq(rows, Mine)
        IN [i \in DOMAIN mine |->
               [product_id |-> mine[i].product_id, quantity |-> mine[i].quantity,
                line_total |-> mine[i].line_total]]]

RECURSIVE SumLineTotals(_, _)
SumLineTotals(rows, i) ==
    IF i > Len(rows) THEN 0 ELSE rows[i].line_total + SumLineTotals(rows, i + 1)

\* COUNT(DISTINCT o.id), COALESCE(SUM(oi.line_total), 0) FROM orders o LEFT JOIN
\* order_items oi   (no date bounds given)
Summary(st) ==
    LET OfOrder(oi) == oi.order_id \in DOMAIN st.orders IN
    [total_orders |-> Cardinality(DOMAIN st.orders),
     total_revenue |-> SumLineTotals(SelectSeq(st.order_items, OfOrder), 1)]

\* the pricing loop of create_payment_order
RECURSIVE PriceCart(_, _, _, _)
PriceCart(prods, items, i, total_amount) ==
    IF i > Len(items) THEN [ok |-> TRUE, total |-> total_amount, bad_id |-> 0]
    ELSE IF items[i].product_id \notin DOMAIN prods
         THEN [ok |-> FALSE, total |-> total_amount, bad_id |-> items[i].product_id]
    ELSE PriceCart(prods, items, i + 1,
                   total_amount + prods[items[i].product_id] * items[i].quantity)

\* amount_paise = amount_in_rupees * 100
AmountPaise(amount_in_rupees) == amount_in_rupees * 100

----------------------------------------------------------------------------
(* Notification *)

NoBody == [found |-> FALSE, items |-> <<>>, total |-> 0]
NoMail == [outcome |-> "none", order_id |-> 0, body |-> NoBody]

\* build_order_email_body: "Order N not found." or the itemised summary
build_order_email_body(st, prods, order_id) ==
    IF order_id \notin DOMAIN st.orders THEN NoBody
    ELSE LET Mine(oi) == oi.order_id = order_id /\ oi.product_id \in DOMAIN prods
             rows == SelectSeq(st.order_items, Mine)
         IN [found |-> TRUE,
             items |-> [i \in DOMAIN rows |->
                          [product_id |-> rows[i].product_id,
                           quantity |-> rows[i].quantity,
                           line_total |-> rows[i].line_total]],
             total |-> SumLineTotals(rows, 1)]

\* EMAIL_HOST and EMAIL_USER and EMAIL_PASS and EMAIL_FROM and EMAIL_TO
EmailConfigured(c) == EmailKeys \subseteq c

\* send_order_email(order_id); smtp_ok is whether the SMTP session succeeds
send_order_email(st, prods, c, order_id, smtp_ok) ==
    IF ~EmailConfigured(c)
    THEN [outcome |-> "skipped", order_id |-> order_id, body |-> NoBody]
    ELSE LET body == build_order_email_body(st, prods, order_id) IN
         IF smtp_ok THEN [outcome |-> "delivered", order_id |-> order_id, body |-> body]
         ELSE [outcome |-> "raised", order_id |-> order_id, body |-> body]

\* slip: the task is added a second time
AddTask_Twice(q, order_id) == Append(Append(q, order_id), order_id)

\* background_tasks.add_task(send_order_email, order_id)
AddTask(q, order_id) == Append(q, order_id)

----------------------------------------------------------------------------
(* Request samples *)

GoodName == <<" ", "J", "o">>
BadNames == {<<"J", " ">>, <<"J", "o", "1">>}
GoodPhone == <<" ", "9", "8", "7", "6", "5", "4", "3", "2", "1", "0">>
BadPhones == {<<"1", "2", "3">>,
              <<"1", "2", "3", "4", "5", "6", "7", "8", "9", "a">>,
              <<"1", "2", "3", "4", "5", "6", "7", "8", "9", "0", "1">>}
GoodAddress == <<"M", "G", " ", "R", "d", " ">>
BadAddresses == {<<" ", " ">>}

\* customers with exactly one bad field
BadCustomers ==
    {<<n, GoodPhone, GoodAddress>> : n \in BadNames}
    \cup {<<GoodName, p, GoodAddress>> : p \in BadPhones}
    \cup {<<GoodName, GoodPhone, a>> : a \in BadAddresses}

\* carts sent together with a bad customer
ProbeCarts == {<<>>} \cup {<<l>> : l \in [product_id : ProductIds, quantity : {1}]}

Bodies(op) ==
    {Request(op, GoodName, GoodPhone, GoodAddress, c, None, 0) : c \in Carts}
    \cup {Request(op, b[1], b[2], b[3], c, None, 0) : b \in BadCustomers, c \in ProbeCarts}

OrderIds == 1..(MaxOrders + 1)

----------------------------------------------------------------------------
(* Handlers *)

\* POST /api/orders
create_order(r) ==
    /\ r.op = "create_order"
    /\ IF ~OrderIn(r)
       THEN /\ Respond(r, Unprocessable)
            /\ UNCHANGED <<nextId, orders, order_items, tasks>>
       ELSE IF r.items = <<>>
       THEN /\ Respond(r, Error("cart_empty", 0))
            /\ UNCHANGED <<nextId, orders, order_items, tasks>>
       ELSE IF ~PhoneOk(strip(r.phone))
       THEN /\ Respond(r, Error("phone", 0))
            /\ UNCHANGED <<nextId, orders, order_items, tasks>>
       ELSE /\ nextId <= MaxOrders
            /\ nextId' = nextId + 1
            /\ LET order_id == nextId
                   placed == PlaceItems(InsertOrder(NoWrites, order_id, strip(r.phone)),
                                        products, order_id, r.items, 1)
               IN IF placed.ok
                  THEN /\ orders' = Commit(Store, placed.st).orders
                       /\ order_items' = Commit(Store, placed.st).order_items
                       /\ tasks' = AddTask(tasks, order_id)
                       /\ Respond(r, Ok(order_id, 0, <<>>, NoSummary))
                  ELSE /\ orders' = Rollback(Store, placed.st).orders
                       /\ order_items' = Rollback(Store, placed.st).order_items
                       /\ tasks' = tasks
                       /\ Respond(r, Error("invalid_product", placed.bad_id))
    /\ UNCHANGED <<products, mail, gateway, cfg, rzp, tx>>

\* GET /api/admin/orders
get_admin_orders(r) ==
    /\ r.op = "get_admin_orders"
    /\ IF ~Authorized(r.key)
       THEN Respond(r, Unauthorized)
       ELSE Respond(r, Ok(0, 0, GroupRows(PendingRows(Store, products)), NoSummary))
    /\ UNCHANGED <<products, nextId, orders, order_items, tasks, mail, gateway, cfg,
                   rzp, tx>>

\* POST /api/admin/orders/{order_id}/complete
complete_order(r) ==
    /\ r.op = "complete_order"
    /\ IF ~Authorized(r.key)
       THEN /\ Respond(r, Unauthorized)
            /\ UNCHANGED orders
       ELSE /\ orders' = CompleteUpdate(Store, r.order_id).orders
            /\ Respond(r, Ok(r.order_id, 0, <<>>, NoSummary))
    /\ UNCHANGED <<products, nextId, order_items, tasks, mail, gateway, cfg, rzp, tx>>

\* GET /api/admin/analytics   (summary part, no date bounds)
get_admin_analytics(r) ==
    /\ r.op = "get_admin_analytics"
    /\ IF ~Authorized(r.key)
       THEN Respond(r, Unauthorized)
       ELSE Respond(r, Ok(0, 0, <<>>, Summary(Store)))
    /\ UNCHANGED <<products, nextId, orders, order_items, tasks, mail, gateway, cfg,
                   rzp, tx>>

\* POST /api/payment/order; gateway_ok is whether client.order.create succeeds
create_payment_order(r, gateway_ok) ==
    /\ r.op = "create_payment_order"
    /\ IF r.items = <<>>
       THEN Respond(r, Error("cart_empty", 0)) /\ UNCHANGED gateway
       ELSE IF ~PhoneOk(strip(r.phone))
       THEN Respond(r, Error("phone", 0)) /\ UNCHANGED gateway
       ELSE IF ~OrderIn(r)
       THEN Respond(r, Raised) /\ UNCHANGED gateway
       ELSE LET priced == PriceCart(products, r.items, 1, 0) IN
            IF ~priced.ok
            THEN Respond(r, Error("invalid_product", priced.bad_id)) /\ UNCHANGED gateway
            ELSE IF priced.total <= 0
            THEN Respond(r, Error("total", 0)) /\ UNCHANGED gateway
            ELSE IF ~rzp
            THEN Respond(r, Error("gateway", 0)) /\ UNCHANGED gateway
            ELSE /\ gateway' = gateway \cup {AmountPaise(priced.total)}
                 /\ IF gateway_ok
                    THEN Respond(r, Ok(0, priced.total, <<>>, NoSummary))
                    ELSE Respond(r, Error("gateway", 0))
    /\ UNCHANGED <<products, nextId, orders, order_items, tasks, mail, cfg, rzp, tx>>

\* a scheduled send_order_email runs, after its response has been sent
RunTask(i, smtp_ok) ==
    /\ i \in DOMAIN tasks
    /\ mail' = send_order_email(Store, products, cfg, tasks[i], smtp_ok)
    /\ tasks' = [j \in 1..(Len(tasks) - 1) |-> IF j < i THEN tasks[j] ELSE tasks[j + 1]]
    /\ UNCHANGED <<products, nextId, orders, order_items, gateway, cfg, rzp, req, resp, tx>>

\* the catalog process changes a price
SetPrice(p, v) ==
    /\ products[p] # v
    /\ products' = [products EXCEPT ![p] = v]
    /\ UNCHANGED <<nextId, orders, order_items, tasks, mail, gateway, cfg, rzp, req,
                   resp, tx>>

----------------------------------------------------------------------------
(* Sequential specification: one request at a time *)

NoTx == [pc |-> "idle", order_id |-> 0, items |-> <<>>, i |-> 0,
         writes |-> NoWrites, read |-> <<>>]
Sessions == {1, 2}

InitWith(c, z) ==
    /\ products \in [Catalog -> Prices]
    /\ nextId = 1
    /\ orders = <<>>
    /\ order_items = <<>>
    /\ tasks = <<>>
    /\ mail = NoMail
    /\ gateway = {}
    /\ cfg = c
    /\ rzp = z
    /\ req = NoReq
    /\ resp = NoResp
    /\ tx = [s \in Sessions |-> NoTx]

Init == InitWith(EmailKeys, TRUE)

Next ==
    \/ \E r \in Bodies("create_order") : create_order(r)
    \/ \E k \in Keys : get_admin_orders(Request("get_admin_orders", <<>>, <<>>, <<>>, <<>>, k, 0))
    \/ \E k \in Keys, o \in OrderIds :
          complete_order(Request("complete_order", <<>>, <<>>, <<>>, <<>>, k, o))
    \/ \E k \in Keys :
          get_admin_analytics(Request("get_admin_analytics", <<>>, <<>>, <<>>, <<>>, k, 0))
    \/ \E p \in Catalog, v \in Prices : SetPrice(p, v)

Spec == Init /\ [][Next]_vars

----------------------------------------------------------------------------
(* Vocabulary of the properties *)

ValidCustomer(r) == OrderIn(r) /\ PhoneOk(strip(r.phone))
AbsentAt(items) == {i \in DOMAIN items : items[i].product_id \notin DOMAIN products}
FirstAbsent(items) ==
    items[CHOOSE i \in AbsentAt(items) : \A j \in AbsentAt(items) : i <= j].product_id
StoreUnchanged == orders' = orders /\ order_items' = order_items
ItemsOf(rows, o) == {i \in DOMAIN rows : rows[i].order_id = o}
RECURSIVE SumOver(_, _)
SumOver(f, S) ==
    IF S = {} THEN 0 ELSE LET x == CHOOSE x \in S : TRUE IN f[x] + SumOver(f, S \ {x})
AdminStep(r) == get_admin_orders(r) \/ complete_order(r) \/ get_admin_analytics(r)

(* C1 as stated: for ANY cart holding an absent product id, place_order       *)
(* persists nothing and answers with an error naming the offending id.        *)
C1_Original ==
    [][(create_order(req') /\ AbsentAt(req'.items) # {})
          => /\ StoreUnchanged
             /\ resp' = Error("invalid_product", FirstAbsent(req'.items))]_vars

(* C1, amended: for any cart holding an absent product id (anywhere in the    *)
(* cart), place_order leaves the Order and OrderItem rows exactly as they     *)
(* were and answers with an error; when the customer info passes validation   *)
(* that error names the first absent product id of the cart.                  *)
C1_AbsentProductPersistsNothing ==
    [][(create_order(req') /\ AbsentAt(req'.items) # {})
          => /\ StoreUnchanged
             /\ tasks' = tasks
             /\ resp'.kind # "ok"
             /\ ValidCustomer(req')
                   => resp' = Error("invalid_product", FirstAbsent(req'.items))]_vars

C1_Witness ==
    /\ req.op = "create_order"
    /\ Len(req.items) = 2
    /\ AbsentAt(req.items) = {2}
    /\ resp = Error("invalid_product", req.items[2].product_id)
    /\ orders # <<>>
    /\ order_items # <<>>

(* C2: for valid customer info and a non-empty cart of existing products,     *)
(* place_order adds exactly one Order row (pending) and len(cart) OrderItem   *)
(* rows for it, line i carrying price-at-placement x quantity of cart line i, *)
(* so the order's line totals sum to the cart total.                          *)
C2_PlacementInsertsOrderAndLines ==
    [][(/\ create_order(req')
        /\ ValidCustomer(req')
        /\ req'.items # <<>>
        /\ AbsentAt(req'.items) = {})
          => LET cart == req'.items
                 id == resp'.order_id
                 n == Len(order_items)
             IN /\ resp'.kind = "ok"
                /\ id \notin DOMAIN orders
                /\ DOMAIN orders' = DOMAIN orders \cup {id}
                /\ \A o \in DOMAIN orders : orders'[o] = orders[o]
                /\ orders'[id].status = "pending"
                /\ Len(order_items') = n + Len(cart)
                /\ SubSeq(order_items', 1, n) = order_items
                /\ \A i \in DOMAIN cart :
                      order_items'[n + i] =
                          [order_id |-> id, product_id |-> cart[i].product_id,
                           quantity |-> cart[i].quantity,
                           line_total |-> products[cart[i].product_id] * cart[i].quantity]
                /\ SumOver([i \in ItemsOf(order_items', id) |-> order_items'[i].line_total],
                           ItemsOf(order_items', id))
                      = SumOver([i \in DOMAIN cart |->
                                    products[cart[i].product_id] * cart[i].quantity],
                                DOMAIN cart)]_vars

C2_Witness ==
    /\ req.op = "create_order"
    /\ resp.kind = "ok"
    /\ Len(req.items) = 2
    /\ Cardinality(ItemsOf(order_items, resp.order_id)) = 2
    /\ \E i \in ItemsOf(order_items, resp.order_id) :
          order_items[i].quantity = 2 /\ order_items[i].line_total = 300
    /\ Cardinality(DOMAIN orders) = 2

(* C3: every persisted OrderItem has quantity > 0 (a cart with a line of      *)
(* quantity <= 0 makes the placement fail with nothing persisted).            *)
C3_QuantityPositive ==
    \A i \in DOMAIN order_items : order_items[i].quantity > 0

(* C4: every Order's status is pending or completed; a new order starts       *)
(* pending; a completed order stays completed; complete_order with the admin  *)
(* key always succeeds and leaves the order (if any) completed, also when it  *)
(* was completed already.                                                     *)
C4_StatusOnlyMovesForward ==
    /\ [](\A o \in DOMAIN orders : orders[o].status \in {"pending", "completed"})
    /\ [][/\ \A o \in DOMAIN orders' \ DOMAIN orders : orders'[o].status = "pending"
          /\ \A o \in DOMAIN orders :
                /\ o \in DOMAIN orders'
                /\ orders[o].status = "completed" => orders'[o].status = "completed"
          /\ (complete_order(req') /\ req'.key = ADMIN_KEY)
                => /\ resp'.status = 200
                   /\ resp'.kind = "ok"
                   /\ DOMAIN orders' = DOMAIN orders
                   /\ \A o \in DOMAIN orders :
                         orders'[o].status =
                            IF o = req'.order_id THEN "completed" ELSE orders[o].status]_vars

C4_Witness ==
    /\ req.op = "complete_order"
    /\ resp.kind = "ok"
    /\ req.order_id \in DOMAIN orders
    /\ orders[req.order_id].status = "completed"
    /\ \E o \in DOMAIN orders : orders[o].status = "pending"

\* the stored lines of order o, in insertion order, as the listing shows them
RECURSIVE LinesOf(_, _, _)
LinesOf(rows, o, i) ==
    IF i > Len(rows) THEN <<>>
    ELSE (IF rows[i].order_id = o
          THEN <<[product_id |-> rows[i].product_id, quantity |-> rows[i].quantity,
                  line_total |-> rows[i].line_total]>>
          ELSE <<>>) \o LinesOf(rows, o, i + 1)

PendingIds == {o \in DOMAIN orders : orders[o].status = "pending"}

(* C5: list_pending_orders with the admin key returns exactly the orders      *)
(* whose status is pending, each with all of its stored lines and their       *)
(* stored line_total.                                                         *)
C5_ListingIsExactlyPending ==
    [][(get_admin_orders(req') /\ req'.key = ADMIN_KEY)
          => /\ resp'.status = 200
             /\ DOMAIN resp'.orders = PendingIds
             /\ \A o \in PendingIds :
                   /\ resp'.orders[o] = LinesOf(order_items, o, 1)
                   /\ resp'.orders[o] # <<>>]_vars

C5_Witness ==
    /\ req.op = "get_admin_orders"
    /\ resp.status = 200
    /\ DOMAIN resp.orders = PendingIds
    /\ \E o \in PendingIds : Len(resp.orders[o]) = 2
    /\ \E o \in DOMAIN orders : orders[o].status = "completed"

(* C6: an admin operation presented with a key other than the configured      *)
(* secret (or with none) answers 401 with no order data and changes nothing   *)
(* in the store.                                                              *)
C6_UnauthorizedChangesNothing ==
    [][(AdminStep(req') /\ req'.key # ADMIN_KEY)
          => /\ resp'.status = 401
             /\ resp'.kind = "unauthorized"
             /\ resp'.orders = <<>>
             /\ resp'.summary = NoSummary
             /\ StoreUnchanged
             /\ UNCHANGED <<products, nextId, tasks>>]_vars

C6_Witness ==
    /\ req.op = "complete_order"
    /\ req.key # ADMIN_KEY
    /\ resp.status = 401
    /\ req.order_id \in DOMAIN orders
    /\ orders[req.order_id].status = "pending"
    /\ order_items # <<>>

----------------------------------------------------------------------------
(* Payment-intent specification: only /api/payment/order and the catalog *)

InitPay == \E z \in BOOLEAN : InitWith(EmailKeys, z)

NextPay ==
    \/ \E r \in Bodies("create_payment_order"), g \in BOOLEAN : create_payment_order(r, g)
    \/ \E p \in Catalog, v \in Prices : SetPrice(p, v)

SpecPay == InitPay /\ [][NextPay]_vars

PaymentStep(r) == \E g \in BOOLEAN : create_payment_order(r, g)

\* the failures the claim lists, apart from the gateway call's own failure
PaymentInputFails(r) ==
    \/ r.items = <<>>
    \/ ~PhoneOk(strip(r.phone))
    \/ ~OrderIn(r)
    \/ AbsentAt(r.items) # {}
    \/ SumOver([i \in DOMAIN r.items |-> products[r.items[i].product_id] * r.items[i].quantity],
               DOMAIN r.items) <= 0

(* C7: every business-rule failure of create_payment_intent (empty cart,      *)
(* invalid phone, invalid name or address, unknown product id, total <= 0,    *)
(* gateway failure) ends with a structured error payload, never an exception  *)
(* raised to the transport layer; the gateway is called only when validation  *)
(* and pricing succeeded with total > 0.                                      *)
C7_PaymentFailuresAreStructured ==
    [][PaymentStep(req')
          => /\ resp'.status = 200
             /\ resp'.kind # "exception"
             /\ PaymentInputFails(req') => resp'.kind # "ok"
             /\ gateway' # gateway => ~PaymentInputFails(req')]_vars

(* the part of C7 that the handler does keep: apart from an invalid name or   *)
(* address, every listed failure is an HTTP 200 error payload, and the        *)
(* gateway is called only after validation and pricing with total > 0         *)
C7_HoldsApartFromNameAndAddress ==
    [][PaymentStep(req')
          => /\ OrderIn(req') => (resp'.status = 200 /\ resp'.kind # "exception")
             /\ PaymentInputFails(req') => resp'.kind # "ok"
             /\ (gateway' # gateway \/ resp'.kind \in {"ok", "gateway"})
                   => ~PaymentInputFails(req')]_vars

----------------------------------------------------------------------------
(* Notification specification: placements and the background tasks they     *)
(* schedule, with the e-mail configuration complete or lacking a value       *)

NotifyCarts ==
    {<<[product_id |-> 1, quantity |-> 2]>>,
     <<[product_id |-> 1, quantity |-> 2], [product_id |-> 1, quantity |-> 0]>>,
     <<[product_id |-> 1, quantity |-> 2], [product_id |-> 2, quantity |-> 2]>>,
     <<>>}

NotifyBodies ==
    {r \in Bodies("create_order") : r.items \in NotifyCarts}

InitNotify == \E missing \in {{}, {"EMAIL_TO"}, {"EMAIL_PASS"}} :
                 InitWith(EmailKeys \ missing, TRUE)

NextNotify ==
    \/ \E r \in NotifyBodies : create_order(r)
    \/ \E i \in 1..MaxOrders, smtp_ok \in BOOLEAN : RunTask(i, smtp_ok)
    \/ \E p \in Catalog, v \in Prices : SetPrice(p, v)

SpecNotify == InitNotify /\ [][NextNotify]_vars

----------------------------------------------------------------------------
(* send_order_email as a function: called with any order id, under any       *)
(* subset of the e-mail configuration                                        *)

CallSend(order_id, smtp_ok) ==
    /\ mail' = send_order_email(Store, products, cfg, order_id, smtp_ok)
    /\ UNCHANGED <<products, nextId, orders, order_items, tasks, gateway, cfg, rzp,
                   req, resp, tx>>

InitSend == \E c \in SUBSET EmailKeys : InitWith(c, TRUE)

NextSend ==
    \/ \E r \in NotifyBodies : create_order(r)
    \/ \E o \in OrderIds, smtp_ok \in BOOLEAN : CallSend(o, smtp_ok)

SpecSend == InitSend /\ [][NextSend]_vars

(* C9: send_order_notification(order_id) is a no-op (nothing delivered,       *)
(* nothing raised) whenever a required configuration value is absent or the   *)
(* order id does not exist in the store.                                      *)
C9_NoOpWithoutConfigOrOrder ==
    (/\ mail.outcome # "none"
     /\ \/ ~(EmailKeys \subseteq cfg)
        \/ mail.order_id \notin DOMAIN orders)
        => mail.outcome = "skipped"

(* the half of C9 the code keeps: with a configuration value absent, nothing  *)
(* is delivered and nothing is raised                                         *)
C9_SkipsWithoutConfig ==
    (mail.outcome # "none" /\ ~(EmailKeys \subseteq cfg)) => mail.outcome = "skipped"

----------------------------------------------------------------------------
(* Concurrent specification: each session runs create_order on its own     *)
(* connection, one SQL statement per step, while the catalog changes and    *)
(* the admin listing is read                                                *)

\* what the other connections see after a statement of an open transaction:
\* the committed rows only
AfterStatement(committed, writes) == committed

ConcCarts ==
    {<<[product_id |-> 1, quantity |-> 2]>>,
     <<[product_id |-> 1, quantity |-> 2], [product_id |-> 1, quantity |-> 2]>>,
     <<[product_id |-> 1, quantity |-> 2], [product_id |-> 2, quantity |-> 2]>>}

ConcBodies == {r \in Bodies("create_order") : r.items \in ConcCarts}

\* create_order up to the INSERT INTO orders (validation has passed)
place_begin(s, r) ==
    /\ tx[s].pc = "idle"
    /\ ValidCustomer(r)
    /\ r.items # <<>>
    /\ nextId <= MaxOrders
    /\ nextId' = nextId + 1
    /\ LET w == InsertOrder(NoWrites, nextId, strip(r.phone)) IN
       /\ tx' = [tx EXCEPT ![s] = [pc |-> "open", order_id |-> nextId, items |-> r.items,
                                   i |-> 1, writes |-> w, read |-> <<>>]]
       /\ orders' = AfterStatement(Store, w).orders
       /\ order_items' = AfterStatement(Store, w).order_items
    /\ UNCHANGED <<products, tasks, mail, gateway, cfg, rzp, req, resp>>

\* one pass of the loop: SELECT price, INSERT the line; or raise and roll back
place_item(s) ==
    /\ tx[s].pc = "open"
    /\ tx[s].i <= Len(tx[s].items)
    /\ LET item == tx[s].items[tx[s].i]
           r == PlaceItem(tx[s].writes, products, tx[s].order_id, item)
       IN IF r.ok
          THEN /\ tx' = [tx EXCEPT ![s].writes = r.st,
                                   ![s].i = @ + 1,
                                   ![s].read = Append(@, products[item.product_id])]
               /\ orders' = AfterStatement(Store, r.st).orders
               /\ order_items' = AfterStatement(Store, r.st).order_items
          ELSE /\ tx' = [tx EXCEPT ![s] = NoTx]
               /\ orders' = Rollback(Store, tx[s].writes).orders
               /\ order_items' = Rollback(Store, tx[s].writes).order_items
    /\ UNCHANGED <<products, nextId, tasks, mail, gateway, cfg, rzp, req, resp>>

\* conn.commit(), then the task is scheduled
place_commit(s) ==
    /\ tx[s].pc = "open"
    /\ tx[s].i > Len(tx[s].items)
    /\ orders' = Commit(Store, tx[s].writes).orders
    /\ order_items' = Commit(Store, tx[s].writes).order_items
    /\ tasks' = AddTask(tasks, tx[s].order_id)
    /\ tx' = [tx EXCEPT ![s] = NoTx]
    /\ UNCHANGED <<products, nextId, mail, gateway, cfg, rzp, req, resp>>

NextConc ==
    \/ \E s \in Sessions, r \in ConcBodies : place_begin(s, r)
    \/ \E s \in Sessions : place_item(s)
    \/ \E s \in Sessions : place_commit(s)
    \/ \E p \in Catalog, v \in Prices : SetPrice(p, v)
    \/ get_admin_orders(Request("get_admin_orders", <<>>, <<>>, <<>>, <<>>, ADMIN_KEY, 0))

SpecConc == Init /\ [][NextConc]_vars

\* the lines a transaction's cart stands for, at the prices it read
CartLines(t) ==
    [i \in DOMAIN t.items |->
        [product_id |-> t.items[i].product_id, quantity |-> t.items[i].quantity,
         line_total |-> t.read[i] * t.items[i].quantity]]

(* C10: under any interleaving of placements, price changes and admin reads,  *)
(* the committed store never shows a partial order: an order becomes visible  *)
(* together with all the lines of its cart, each at the price its own         *)
(* transaction read times its quantity; the lines of a visible order never    *)
(* change; no line is visible without its order.                              *)
C10_NoPartialOrderVisible ==
    /\ [](/\ \A i \in DOMAIN order_items : order_items[i].order_id \in DOMAIN orders
          /\ \A o \in DOMAIN orders : LinesOf(order_items, o, 1) # <<>>
          /\ req.op = "get_admin_orders"
                => \A o \in DOMAIN resp.orders :
                      resp.orders[o] = LinesOf(order_items, o, 1))
    /\ [][/\ \A o \in DOMAIN orders :
                /\ o \in DOMAIN orders'
                /\ LinesOf(order_items', o, 1) = LinesOf(order_items, o, 1)
          /\ \A o \in DOMAIN orders' \ DOMAIN orders :
                \E s \in Sessions :
                   /\ tx[s].pc = "open"
                   /\ tx[s].order_id = o
                   /\ tx'[s].pc = "idle"
                   /\ Len(tx[s].read) = Len(tx[s].items)
                   /\ LinesOf(order_items', o, 1) = CartLines(tx[s])]_vars

C10_Witness ==
    /\ req.op = "get_admin_orders"
    /\ \E o \in DOMAIN resp.orders :
          /\ Len(resp.orders[o]) = 2
          /\ resp.orders[o][1].line_total # resp.orders[o][2].line_total
    /\ \E s \in Sessions :
          /\ tx[s].pc = "open"
          /\ tx[s].i = 2
          /\ tx[s].order_id \notin DOMAIN orders
          /\ tx[s].writes.order_items # <<>>

====
